---- MODULE Spec2Model ----
(***************************************************************************)
(* idxscan: a symlink-following traversal (walk_follow_symlinks) feeding   *)
(* a create-or-load store of per-path snapshots (FileInfo over sqlite3).   *)
(*                                                                         *)
(* The filesystem and the sqlite3 engine are the environment: they are     *)
(* modelled by what the calls the program makes on them do (os.stat,       *)
(* os.lstat, os.listdir, os.readlink, INSERT .. ON CONFLICT DO NOTHING,    *)
(* UPDATE .. WHERE, cursor.lastrowid, cursor.rowcount).                     *)
(***************************************************************************)
EXTENDS Integers, Sequences, FiniteSets, TLC

\* ---------------------------------------------------------------- bounds
NumInodes == 3
MaxFsOps == 3
MaxScans == 2
MaxLayoutOps == 3
MaxApiOps == 1
MaxApiScans == 1
MaxCalls == 1
MaxStoreOps == 1
MaxStoreScans == 1
MaxKeepOps == 2
MaxKeepScans == 2
MaxKindOps == 2

Names == {"a", "b"}
Inodes == 1..NumInodes
Workers == {1, 2}

\* The directory handed to walk_follow_symlinks; paths are sequences of
\* names below it, so the root path itself is the empty sequence.
RootIno == 1
Top == << >>

\* Symlink texts: "." is the root directory, the others name root entries.
Targets == {<<".">>, <<"a">>, <<"b">>}

\* None (cursor.lastrowid before any execute) and SQL NULL.
None == -1
Null == -1

VARIABLES
    fs,               \* inode table of the filesystem
    fsOps,            \* number of filesystem changes made so far
    fileinfo,         \* the rows of table fileinfo
    contents,         \* the rows of table contents
    seq,              \* sqlite_sequence of fileinfo (AUTOINCREMENT)
    lastInsertRowid,  \* per connection: sqlite3_last_insert_rowid
    pc,               \* per worker: where its script stands
    stack,            \* per worker: the generator frames of the traversal
    visited,          \* per worker: the visited set of the traversal
    fi,               \* per worker: the FileInfo object of the loop body
    count,            \* per worker: paths processed
    scans,            \* per worker: runs (the client: calls) started
    yielded,          \* per worker: paths yielded in this run, in order
    ykeys,            \* per worker: the (st_dev, st_ino) key of each yield
    seen,             \* per worker: snapshot taken for each yielded path
    static,           \* per worker: no filesystem change since the run began
    rescan,           \* per worker: this run follows a completed run on an unchanged tree
    nUpdates,         \* per worker: UPDATE statements issued in this run
    added,            \* per worker: the last INSERT added a row
    outcome,          \* per worker: how the last commit() ended
    failure,          \* per worker: the call whose error ended the run
    before            \* per worker: table fileinfo when the run began

vars == <<fs, fsOps, fileinfo, contents, seq, lastInsertRowid, pc, stack, visited, fi,
          count, scans, yielded, ykeys, seen, static, rescan, nUpdates, added,
          outcome, failure, before>>

fsVars == <<fs, fsOps>>
dbVars == <<fileinfo, contents, seq, lastInsertRowid>>
walkVars == <<stack, visited, yielded, ykeys>>

\* ------------------------------------------------------------ filesystem
FreeNode ==
    [kind |-> "free", ents |-> [n \in Names |-> 0], target |-> << >>,
     perm |-> TRUE, mtime |-> 0, ctime |-> 0, size |-> 0, nlink |-> 0]

NewNode(kind, tgt) ==
    [FreeNode EXCEPT !.kind = kind, !.target = tgt, !.nlink = 1]

\* st_mode: the file-type bits (S_IFMT >> 12) and one permission bit.
KindBits(kind) ==
    CASE kind = "dir" -> 4
      [] kind = "file" -> 8
      [] kind = "link" -> 10
      [] OTHER -> 2

Mode(node) == 2 * KindBits(node.kind) + (IF node.perm THEN 1 ELSE 0)

S_ISDIR(mode) == mode \div 2 = 4
S_ISLNK(mode) == mode \div 2 = 10
S_ISREG(mode) == mode \div 2 = 8

\* Path resolution as the kernel does it: component by component from the
\* root, substituting a symlink's text, giving up after too many symlinks.
RECURSIVE Lookup(_, _, _, _, _)
Lookup(f, cur, rest, followLast, hops) ==
    IF rest = << >> THEN [err |-> "ok", ino |-> cur]
    ELSE IF f[cur].kind # "dir" THEN [err |-> "ENOTDIR", ino |-> 0]
    ELSE IF ~f[cur].perm THEN [err |-> "EACCES", ino |-> 0]
    ELSE IF Head(rest) = "." THEN Lookup(f, cur, Tail(rest), followLast, hops)
    ELSE LET child == f[cur].ents[Head(rest)] IN
         IF child = 0 THEN [err |-> "ENOENT", ino |-> 0]
         ELSE IF f[child].kind = "link" /\ (Len(rest) > 1 \/ followLast)
         THEN IF hops >= NumInodes THEN [err |-> "ELOOP", ino |-> 0]
              ELSE Lookup(f, RootIno, f[child].target \o Tail(rest),
                          followLast, hops + 1)
         ELSE Lookup(f, child, Tail(rest), followLast, hops)

\* os.stat(path): follows the final symlink.
OsStat(f, path) == Lookup(f, RootIno, path, TRUE, 0)

\* os.lstat(path): does not follow the final symlink.
OsLstat(f, path) == Lookup(f, RootIno, path, FALSE, 0)

\* os.listdir(path): the names, or the error.
OsListdir(f, path) ==
    LET r == OsStat(f, path) IN
    IF r.err # "ok" THEN [err |-> r.err, names |-> {}]
    ELSE IF f[r.ino].kind # "dir" THEN [err |-> "ENOTDIR", names |-> {}]
    ELSE IF ~f[r.ino].perm THEN [err |-> "EACCES", names |-> {}]
    ELSE [err |-> "ok", names |-> {n \in Names : f[r.ino].ents[n] # 0}]

\* A faulty variant: os.path.lexists, which does not follow the symlink.
OsPathLexists(f, path) == OsLstat(f, path).err = "ok"

\* os.path.exists / os.path.isfile: stat, every OSError read as False.
OsPathExists(f, path) == OsStat(f, path).err = "ok"
OsPathIsfile(f, path) ==
    LET r == OsStat(f, path) IN r.err = "ok" /\ f[r.ino].kind = "file"

\* os.path.ismount: the tree lies on one device and holds no mount point.
OsPathIsmount(f, path) == FALSE

\* All orders in which a directory listing may come back.
RECURSIVE Orders(_)
Orders(S) ==
    IF S = {} THEN {<< >>}
    ELSE UNION {{<<n>> \o o : o \in Orders(S \ {n})} : n \in S}

\* Allocation takes the lowest free inode number.
FreeInodes(f) == {i \in Inodes : f[i].kind = "free"}
LowestFree(f) == CHOOSE i \in FreeInodes(f) : \A j \in FreeInodes(f) : i <= j

\* A change of a directory's entries stamps the directory.
Stamp(node) == [node EXCEPT !.mtime = @ + 1, !.ctime = @ + 1]

NoStatic == [w \in Workers |-> FALSE]

\* creat / mkdir / symlink / mknod of name n in directory d.
FsCreate(d, n, kind, tgt) ==
    /\ fs[d].kind = "dir"
    /\ fs[d].ents[n] = 0
    /\ FreeInodes(fs) # {}
    /\ LET i == LowestFree(fs) IN
       fs' = [fs EXCEPT ![d] = Stamp([@ EXCEPT !.ents[n] = i]),
                        ![i] = NewNode(kind, tgt)]

\* link(2): a second name for an inode that is not a directory.
FsLink(d, n, i) ==
    /\ fs[d].kind = "dir"
    /\ fs[d].ents[n] = 0
    /\ fs[i].kind \in {"file", "link", "special"}
    /\ fs' = [fs EXCEPT ![d] = Stamp([@ EXCEPT !.ents[n] = i]),
                        ![i] = [@ EXCEPT !.nlink = @ + 1, !.ctime = @ + 1]]

\* unlink / rmdir of name n in directory d (a directory must be empty).
FsUnlink(d, n) ==
    /\ fs[d].kind = "dir"
    /\ fs[d].ents[n] # 0
    /\ LET i == fs[d].ents[n] IN
       /\ fs[i].kind = "dir" => \A m \in Names : fs[i].ents[m] = 0
       /\ fs' = [fs EXCEPT ![d] = Stamp([@ EXCEPT !.ents[n] = 0]),
                           ![i] = IF fs[i].nlink = 1 THEN FreeNode
                                  ELSE [@ EXCEPT !.nlink = @ - 1,
                                                 !.ctime = @ + 1]]

\* utime / write / chmod on an inode.
FsModify(i, what) ==
    /\ fs[i].kind # "free"
    /\ \/ /\ what = "touch"
          /\ fs' = [fs EXCEPT ![i] = Stamp(@)]
       \/ /\ what = "write"
          /\ fs[i].kind = "file"
          /\ fs' = [fs EXCEPT ![i] = Stamp([@ EXCEPT !.size = @ + 1])]
       \/ /\ what = "chmod"
          /\ fs[i].kind # "link"
          /\ fs' = [fs EXCEPT ![i] = [@ EXCEPT !.perm = ~@, !.ctime = @ + 1]]

FsStep(limit) ==
    /\ fsOps < limit
    /\ \/ \E d \in Inodes, n \in Names, kind \in {"dir", "file", "special"} :
              FsCreate(d, n, kind, << >>)
       \/ \E d \in Inodes, n \in Names, tgt \in Targets :
              FsCreate(d, n, "link", tgt)
       \/ \E d \in Inodes, n \in Names, i \in Inodes : FsLink(d, n, i)
       \/ \E d \in Inodes, n \in Names : FsUnlink(d, n)
       \/ \E i \in Inodes, what \in {"touch", "write", "chmod"} :
              FsModify(i, what)
    /\ fsOps' = fsOps + 1
    /\ static' = NoStatic
    /\ UNCHANGED <<dbVars, pc, walkVars, fi, count, scans, seen, rescan,
                   nUpdates, added, outcome, failure, before>>

\* ----------------------------------------------------------------- store
\* FileInfo._FileInfo with its defaults.
DefaultData ==
    [id |-> -1, path |-> << >>, mode |-> 0, ctime |-> 0, mtime |-> 0,
     size |-> 0, isdir |-> FALSE, islink |-> FALSE, ismount |-> FALSE,
     isregular |-> FALSE, symlink |-> << >>]

\* FileInfo(conn, data=d): a fresh cursor and the dataclass built from d.
NewFileInfo(path, id) ==
    [data |-> [DefaultData EXCEPT !.path = path, !.id = id],
     lastrowid |-> None, rowcount |-> -1]

\* sqlite3 binds a Python bool as the integer 0 or 1.
BindBool(b) == IF b THEN 1 ELSE 0

\* The column values the INSERT and the UPDATE both bind from self.data.
BoundColumns(data) ==
    [mode |-> data.mode, ctime |-> data.ctime, mtime |-> data.mtime,
     size |-> data.size, isdir |-> BindBool(data.isdir),
     islink |-> BindBool(data.islink), ismount |-> BindBool(data.ismount),
     isregular |-> BindBool(data.isregular), symlink |-> data.symlink]

NewRow(rowid, data) ==
    [id |-> rowid, path |-> data.path, cols |-> BoundColumns(data),
     content_id |-> Null]

HasPath(table, path) == \E r \in table : r.path = path

\* A faulty variant: the INSERT without its ON CONFLICT clause.
InsertAlways(table, rowid, data) == table \cup {NewRow(rowid, data)}

\* A faulty variant: INSERT OR REPLACE, which deletes the row in conflict.
InsertOrReplace(table, rowid, data) ==
    {r \in table : r.path # data.path} \cup {NewRow(rowid, data)}

\* INSERT INTO fileinfo (...) VALUES (...) ON CONFLICT(path) DO NOTHING
InsertOrIgnore(table, rowid, data) ==
    IF HasPath(table, data.path) THEN table
    ELSE table \cup {NewRow(rowid, data)}

\* A faulty variant: the row is looked up by the record's id.
MatchingById(table, data) == {r \in table : r.id = data.id}

\* A faulty variant: a WHERE clause that every row satisfies.
MatchingAll(table, data) == table

\* WHERE path = ?
Matching(table, data) == {r \in table : r.path = data.path}

\* UPDATE fileinfo SET ... WHERE path = ?
UpdateWhere(table, data) ==
    {IF r \in Matching(table, data)
     THEN [r EXCEPT !.cols = BoundColumns(data)] ELSE r : r \in table}

\* return self.cursor.lastrowid, self.cursor.lastrowid == 0
Conflict(lastrowid) == lastrowid = 0

\* A faulty variant: only several rows count as bad.
BadRowcountLax(rowcount) == rowcount > 1

\* if self.cursor.rowcount != 1: raise
BadRowcount(rowcount) == rowcount # 1

\* load_vfs_info: the snapshot of self.data.path, or the OSError of lstat.
VfsInfo(f, data) ==
    LET st == OsLstat(f, data.path) IN
    IF st.err # "ok" THEN [err |-> st.err, data |-> data]
    ELSE LET node == f[st.ino]
             mode == Mode(node)
             isdir == S_ISDIR(mode)
             islink == S_ISLNK(mode)
         IN [err |-> "ok",
             data |-> [data EXCEPT
                 !.mode = mode,
                 !.ctime = node.ctime,
                 !.mtime = node.mtime,
                 !.size = node.size,
                 !.isdir = isdir,
                 !.islink = islink,
                 !.ismount = OsPathIsmount(f, data.path),
                 !.isregular = ~(OsPathExists(f, data.path)
                                 /\ ~OsPathIsfile(f, data.path) /\ ~isdir),
                 !.symlink = IF islink THEN node.target ELSE << >>]]

\* ------------------------------------------------------------- traversal
Frame(top) == [top |-> top, pc |-> "stat", isdir |-> FALSE, entries |-> << >>]

\* except FileNotFoundError / except PermissionError around os.stat
StatSkipped(err) == err \in {"ENOENT", "EACCES"}

\* except PermissionError around os.listdir
ListdirSkipped(err) == err = "EACCES"

\* if key in visited: return
AlreadyVisited(vis, key) == key \in vis

\* A faulty variant: the key is never recorded.
MarkVisitedNever(vis, key) == vis

\* visited.add(key)
MarkVisited(vis, key) == vis \cup {key}

\* A faulty variant: only what is not a directory is yielded.
YieldsOnlyFiles(mode) == ~S_ISDIR(mode)

\* yield top: every node that passed the visited test is yielded, before
\* the S_ISDIR test and the listing.
YieldsTop(mode) == TRUE

\* The worker that runs the script's scan loop; the other one is a client
\* of class FileInfo on a connection of its own.
Scanners == {1}
Resume(w) == IF w \in Scanners THEN "walk" ELSE "idle"

\* ---------------------------------------------------------------- actions
NoFailure == [op |-> "none", err |-> "none"]
Failure(op, err) == [op |-> op, err |-> err]

\* The script starts over the database file it finds: table fileinfo as
\* earlier runs left it, and its AUTOINCREMENT sequence.
InitWith(table, sequence) ==
    /\ fs = [i \in Inodes |-> IF i = RootIno THEN NewNode("dir", << >>)
                              ELSE FreeNode]
    /\ fsOps = 0
    /\ fileinfo = table
    /\ contents = {}
    /\ seq = sequence
    /\ lastInsertRowid = [w \in Workers |-> 0]
    /\ pc = [w \in Workers |-> "idle"]
    /\ stack = [w \in Workers |-> << >>]
    /\ visited = [w \in Workers |-> {}]
    /\ fi = [w \in Workers |-> NewFileInfo(<< >>, -1)]
    /\ count = [w \in Workers |-> 0]
    /\ scans = [w \in Workers |-> 0]
    /\ yielded = [w \in Workers |-> << >>]
    /\ ykeys = [w \in Workers |-> << >>]
    /\ seen = [w \in Workers |-> << >>]
    /\ static = [w \in Workers |-> FALSE]
    /\ rescan = [w \in Workers |-> FALSE]
    /\ nUpdates = [w \in Workers |-> 0]
    /\ added = [w \in Workers |-> FALSE]
    /\ outcome = [w \in Workers |-> "none"]
    /\ failure = [w \in Workers |-> NoFailure]
    /\ before = [w \in Workers |-> {}]

\* No database file yet: CREATE TABLE IF NOT EXISTS makes the empty tables.
Init == InitWith({}, 0)

\* One run of the script: a new connection (sqlite3.connect, CREATE TABLE IF
\* NOT EXISTS), count = 0, and the first call of the generator.
StartScan(w, limit) ==
    /\ pc[w] \in {"idle", "done", "raised"}
    /\ scans[w] < limit
    /\ scans' = [scans EXCEPT ![w] = @ + 1]
    /\ lastInsertRowid' = [lastInsertRowid EXCEPT ![w] = 0]
    /\ pc' = [pc EXCEPT ![w] = "walk"]
    /\ stack' = [stack EXCEPT ![w] = <<Frame(Top)>>]
    /\ visited' = [visited EXCEPT ![w] = {}]
    /\ count' = [count EXCEPT ![w] = 0]
    /\ yielded' = [yielded EXCEPT ![w] = << >>]
    /\ ykeys' = [ykeys EXCEPT ![w] = << >>]
    /\ seen' = [seen EXCEPT ![w] = << >>]
    /\ rescan' = [rescan EXCEPT ![w] = pc[w] = "done" /\ static[w]]
    /\ static' = [static EXCEPT ![w] = TRUE]
    /\ nUpdates' = [nUpdates EXCEPT ![w] = 0]
    /\ added' = [added EXCEPT ![w] = FALSE]
    /\ outcome' = [outcome EXCEPT ![w] = "none"]
    /\ failure' = [failure EXCEPT ![w] = NoFailure]
    /\ before' = [before EXCEPT ![w] = fileinfo]
    /\ UNCHANGED <<fsVars, fileinfo, contents, seq, fi>>

\* walk_follow_symlinks up to its yield: os.stat under its guard, the
\* visited test, visited.add, yield top (the loop body then builds its
\* FileInfo for the yielded path).
WalkStat(w) ==
    /\ pc[w] = "walk"
    /\ stack[w] # << >>
    /\ Head(stack[w]).pc = "stat"
    /\ LET frame == Head(stack[w])
           st == OsStat(fs, frame.top)
       IN IF st.err # "ok" THEN
              /\ IF StatSkipped(st.err)
                 THEN /\ stack' = [stack EXCEPT ![w] = Tail(@)]
                      /\ pc' = pc
                      /\ failure' = failure
                 ELSE /\ stack' = [stack EXCEPT ![w] = << >>]
                      /\ pc' = [pc EXCEPT ![w] = "raised"]
                      /\ failure' = [failure EXCEPT ![w] =
                             Failure("stat", st.err)]
              /\ UNCHANGED <<visited, yielded, ykeys, fi>>
          ELSE IF AlreadyVisited(visited[w], st.ino) THEN
              /\ stack' = [stack EXCEPT ![w] = Tail(@)]
              /\ UNCHANGED <<pc, visited, yielded, ykeys, fi, failure>>
          ELSE
              /\ failure' = failure
              /\ visited' = [visited EXCEPT ![w] = MarkVisited(@, st.ino)]
              /\ stack' = [stack EXCEPT ![w] =
                     <<[frame EXCEPT !.pc = "listdir",
                                     !.isdir = S_ISDIR(Mode(fs[st.ino]))]>>
                     \o Tail(@)]
              /\ IF YieldsTop(Mode(fs[st.ino]))
                 THEN /\ yielded' = [yielded EXCEPT ![w] = Append(@, frame.top)]
                      /\ ykeys' = [ykeys EXCEPT ![w] = Append(@, st.ino)]
                      /\ fi' = [fi EXCEPT ![w] = NewFileInfo(frame.top, -1)]
                      /\ pc' = [pc EXCEPT ![w] = "load"]
                 ELSE UNCHANGED <<yielded, ykeys, fi, pc>>
    /\ outcome' = [outcome EXCEPT ![w] =
           IF pc'[w] = "load" THEN "none" ELSE @]
    /\ UNCHANGED <<fsVars, dbVars, count, scans, seen, static, rescan,
                   nUpdates, added, before>>

\* After the yield: the S_ISDIR test and os.listdir under its guard.
WalkListdir(w) ==
    /\ pc[w] = "walk"
    /\ stack[w] # << >>
    /\ Head(stack[w]).pc = "listdir"
    /\ LET frame == Head(stack[w])
           ls == OsListdir(fs, frame.top)
       IN IF ~frame.isdir THEN
              /\ stack' = [stack EXCEPT ![w] = Tail(@)]
              /\ UNCHANGED <<pc, failure>>
          ELSE IF ls.err # "ok" THEN
              IF ListdirSkipped(ls.err)
              THEN /\ stack' = [stack EXCEPT ![w] = Tail(@)]
                   /\ UNCHANGED <<pc, failure>>
              ELSE /\ stack' = [stack EXCEPT ![w] = << >>]
                   /\ pc' = [pc EXCEPT ![w] = "raised"]
                   /\ failure' = [failure EXCEPT ![w] =
                          Failure("listdir", ls.err)]
          ELSE
              /\ \E order \in Orders(ls.names) :
                     stack' = [stack EXCEPT ![w] =
                         <<[frame EXCEPT !.pc = "loop", !.entries = order]>>
                         \o Tail(@)]
              /\ UNCHANGED <<pc, failure>>
    /\ UNCHANGED <<fsVars, dbVars, visited, yielded, ykeys, fi, count, scans,
                   seen, static, rescan, nUpdates, added, outcome, before>>

\* for name in entries: the recursive call on os.path.join(top, name), or
\* the return when the entries are used up.
WalkLoop(w) ==
    /\ pc[w] = "walk"
    /\ stack[w] # << >>
    /\ Head(stack[w]).pc = "loop"
    /\ LET frame == Head(stack[w]) IN
       IF frame.entries = << >>
       THEN stack' = [stack EXCEPT ![w] = Tail(@)]
       ELSE stack' = [stack EXCEPT ![w] =
                <<Frame(Append(frame.top, Head(frame.entries))),
                  [frame EXCEPT !.entries = Tail(@)]>> \o Tail(@)]
    /\ UNCHANGED <<fsVars, dbVars, pc, visited, yielded, ykeys, fi, count,
                   scans, seen, static, rescan, nUpdates, added, outcome,
                   failure, before>>

\* The generator is exhausted: the for loop and the script end.
WalkEnd(w) ==
    /\ pc[w] = "walk"
    /\ stack[w] = << >>
    /\ pc' = [pc EXCEPT ![w] = "done"]
    /\ UNCHANGED <<fsVars, dbVars, walkVars, fi, count, scans, seen, static,
                   rescan, nUpdates, added, outcome, failure, before>>

\* fi.load_vfs_info(): an OSError of os.lstat is caught nowhere.
LoadVfsInfo(w) ==
    /\ pc[w] = "load"
    /\ LET r == VfsInfo(fs, fi[w].data) IN
       IF r.err # "ok" THEN
           /\ pc' = [pc EXCEPT ![w] = "raised"]
           /\ stack' = [stack EXCEPT ![w] = << >>]
           /\ failure' = [failure EXCEPT ![w] = Failure("lstat", r.err)]
           /\ UNCHANGED <<fi, seen>>
       ELSE
           /\ failure' = failure
           /\ fi' = [fi EXCEPT ![w].data = r.data]
           /\ seen' = [seen EXCEPT ![w] =
                  IF w \in Scanners THEN Append(@, r.data) ELSE @]
           /\ pc' = [pc EXCEPT ![w] = "commit"]
           /\ stack' = stack
    /\ UNCHANGED <<fsVars, dbVars, visited, yielded, ykeys, count, scans,
                   static, rescan, nUpdates, added, outcome, before>>

\* commit() with data.id == -1: _insert_fileinfo, then the early return
\* when it reports no conflict (the loop body then counts the path).
CommitInsert(w) ==
    /\ pc[w] = "commit"
    /\ fi[w].data.id = -1
    /\ LET rowid == seq + 1
           table == InsertOrIgnore(fileinfo, rowid, fi[w].data)
           did == table # fileinfo
           last == IF did THEN rowid ELSE lastInsertRowid[w]
       IN /\ fileinfo' = table
          /\ seq' = rowid
          /\ lastInsertRowid' = [lastInsertRowid EXCEPT ![w] = last]
          /\ fi' = [fi EXCEPT ![w].lastrowid = last,
                              ![w].rowcount = IF did THEN 1 ELSE 0]
          /\ added' = [added EXCEPT ![w] = did]
          /\ IF Conflict(last)
             THEN /\ pc' = [pc EXCEPT ![w] = "update"]
                  /\ outcome' = [outcome EXCEPT ![w] = "pending"]
                  /\ count' = count
             ELSE /\ pc' = [pc EXCEPT ![w] = Resume(w)]
                  /\ count' = [count EXCEPT ![w] = @ + 1]
                  /\ outcome' = [outcome EXCEPT ![w] = "created"]
    /\ UNCHANGED <<fsVars, contents, walkVars, scans, seen, static, rescan,
                   nUpdates, failure, before>>

\* commit() with data.id != -1 goes straight to _update_fileinfo.
CommitLoaded(w) ==
    /\ pc[w] = "commit"
    /\ fi[w].data.id # -1
    /\ pc' = [pc EXCEPT ![w] = "update"]
    /\ added' = [added EXCEPT ![w] = FALSE]
    /\ outcome' = [outcome EXCEPT ![w] = "pending"]
    /\ UNCHANGED <<fsVars, dbVars, walkVars, fi, count, scans, seen, static,
                   rescan, nUpdates, failure, before>>

\* _update_fileinfo: the UPDATE, conn.commit(), then the rowcount check.
CommitUpdate(w) ==
    /\ pc[w] = "update"
    /\ LET n == Cardinality(Matching(fileinfo, fi[w].data)) IN
       /\ fileinfo' = UpdateWhere(fileinfo, fi[w].data)
       /\ fi' = [fi EXCEPT ![w].rowcount = n]
       /\ nUpdates' = [nUpdates EXCEPT ![w] = @ + 1]
       /\ IF BadRowcount(n)
          THEN /\ pc' = [pc EXCEPT ![w] = "raised"]
               /\ stack' = [stack EXCEPT ![w] = << >>]
               /\ outcome' = [outcome EXCEPT ![w] = "raised"]
               /\ failure' = [failure EXCEPT ![w] =
                      Failure("update", "rowcount")]
               /\ count' = count
          ELSE /\ pc' = [pc EXCEPT ![w] = Resume(w)]
               /\ stack' = stack
               /\ outcome' = [outcome EXCEPT ![w] = "updated"]
               /\ failure' = failure
               /\ count' = [count EXCEPT ![w] = @ + 1]
    /\ UNCHANGED <<fsVars, contents, seq, lastInsertRowid, visited, yielded,
                   ykeys, scans, seen, static, rescan, added, before>>

\* A client of class FileInfo on its own connection: it builds
\* FileInfo(conn, data={'id': id, 'path': path}), takes the snapshot and
\* calls commit(), as the script's loop body does.
Clients == Workers \ Scanners
ClientPaths == {Top} \cup {<<n>> : n \in Names}
ClientIds == {-1, 1}

ClientCall(w, path, id) ==
    /\ pc[w] \in {"idle", "raised"}
    /\ scans[w] < MaxCalls
    /\ scans' = [scans EXCEPT ![w] = @ + 1]
    /\ fi' = [fi EXCEPT ![w] = NewFileInfo(path, id)]
    /\ pc' = [pc EXCEPT ![w] = "load"]
    /\ outcome' = [outcome EXCEPT ![w] = "none"]
    /\ failure' = [failure EXCEPT ![w] = NoFailure]
    /\ added' = [added EXCEPT ![w] = FALSE]
    /\ UNCHANGED <<fsVars, dbVars, walkVars, count, seen, static, rescan,
                   nUpdates, before>>

\* ---------------------------------------------------------- specifications
\* No run is under way.
Quiet == \A w \in Workers : pc[w] \in {"idle", "done", "raised"}

ScanStep(w, limit) ==
    \/ StartScan(w, limit)
    \/ WalkStat(w)
    \/ WalkListdir(w)
    \/ WalkLoop(w)
    \/ WalkEnd(w)
    \/ LoadVfsInfo(w)
    \/ CommitInsert(w)
    \/ CommitUpdate(w)

\* One worker; the tree changes only between runs.
Next ==
    \/ Quiet /\ FsStep(MaxFsOps)
    \/ \E w \in Scanners : ScanStep(w, MaxScans)

Spec == Init /\ [][Next]_vars

\* One worker; the tree changes at any time, also while a run is under way.
NextRace ==
    \/ FsStep(MaxFsOps)
    \/ \E w \in Scanners : ScanStep(w, MaxScans)

SpecRace == Init /\ [][NextRace]_vars

\* No worker has started yet.
Fresh == \A w \in Workers : scans[w] = 0

\* One worker over a tree laid out before its first run and static since.
NextTree ==
    \/ Fresh /\ FsStep(MaxLayoutOps)
    \/ \E w \in Scanners : ScanStep(w, MaxScans)

SpecTree == Init /\ [][NextTree]_vars

ClientStep(w) ==
    \/ \E path \in ClientPaths, id \in ClientIds : ClientCall(w, path, id)
    \/ LoadVfsInfo(w)
    \/ CommitInsert(w)
    \/ CommitLoaded(w)
    \/ CommitUpdate(w)

\* The scan and a client of the store, each on its own connection, over a
\* tree laid out before either starts.
NextApi ==
    \/ Fresh /\ FsStep(MaxApiOps)
    \/ \E w \in Scanners : ScanStep(w, MaxApiScans)
    \/ \E w \in Clients : ClientStep(w)

SpecApi == Init /\ [][NextApi]_vars

\* The tree an earlier scan saw: the root with the conventional files a and b.
PastFs ==
    [i \in Inodes |->
        IF i = RootIno
        THEN [NewNode("dir", << >>) EXCEPT !.ents = [n \in Names |->
                  IF n = "a" THEN 2 ELSE 3]]
        ELSE IF i \in {2, 3} THEN NewNode("file", << >>)
        ELSE FreeNode]

\* The row id an earlier scan gave a path.
PastId(path) == IF path = Top THEN 1 ELSE IF path = <<"a">> THEN 2 ELSE 3

\* The row an earlier scan persisted for a path, with the content reference
\* a writer of column content_id left in it.
PastRow(path, cid) ==
    [NewRow(PastId(path), VfsInfo(PastFs, NewFileInfo(path, -1).data).data)
        EXCEPT !.content_id = cid]

\* The states of table fileinfo the script may find in paths.db: any of the
\* earlier rows, unique by path and by id; only a conventional file's row
\* carries a content reference.
Stores ==
    {{PastRow(path, cid[path]) : path \in present} :
        present \in SUBSET ClientPaths,
        cid \in {c \in [ClientPaths -> {Null, 1}] : c[Top] = Null}}

\* sqlite_sequence: the largest row id ever given.
MaxId(table) ==
    IF table = {} THEN 0
    ELSE CHOOSE m \in {r.id : r \in table} : \A r \in table : r.id <= m

InitStore == \E table \in Stores : InitWith(table, MaxId(table))

\* One worker over a database file left by earlier runs and a tree laid out
\* before its first run.
NextStore ==
    \/ Fresh /\ FsStep(MaxStoreOps)
    \/ \E w \in Scanners : ScanStep(w, MaxStoreScans)

SpecStore == InitStore /\ [][NextStore]_vars

\* One worker from an empty database; a short history of tree changes, all
\* of them between runs.
NextKeep ==
    \/ Quiet /\ FsStep(MaxKeepOps)
    \/ \E w \in Scanners : ScanStep(w, MaxKeepScans)

SpecKeep == Init /\ [][NextKeep]_vars

\* Clients only, taking snapshots of the nodes of a tree laid out before
\* the first call.
NextKinds ==
    \/ Fresh /\ FsStep(MaxKindOps)
    \/ \E w \in Clients : ClientStep(w)

SpecKinds == Init /\ [][NextKinds]_vars

\* The traversal, once started, stops: by exhaustion or by an error.
FairSpec == Spec /\ \A w \in Scanners : WF_vars(ScanStep(w, MaxScans))
WalkStops == \A w \in Scanners : pc[w] = "walk" ~> pc[w] \in {"done", "raised"}

\* ------------------------------------------------------------------ claims
Indexes(q) == 1..Len(q)
InSeq(q, x) == \E k \in Indexes(q) : q[k] = x

\* C1: a commit() with data.id == -1 ends as "newly created" (no UPDATE
\* issued) exactly when its INSERT added a row, and goes on to the UPDATE
\* only when the INSERT was a no-op, whatever earlier inserts on the same
\* connection did.
C1_CreatedIffInserted ==
    \A w \in Scanners :
        /\ outcome[w] \in {"created", "updated", "raised"} =>
               (outcome[w] = "created" <=> added[w])
        /\ pc[w] = "update" => ~added[w]

\* C2: a pass over a tree that an earlier, completed pass already scanned
\* and that has not changed since issues no UPDATE and leaves table
\* fileinfo as it found it.
C2_SecondPassWritesNothing ==
    \A w \in Scanners :
        (rescan[w] /\ static[w]) => (nUpdates[w] = 0 /\ fileinfo = before[w])

\* C3: when a pass has completed, every path it yielded has a row whose
\* columns are the snapshot taken in that pass.
C3_RowsEqualSnapshots ==
    \A w \in Scanners :
        pc[w] = "done" =>
            \A k \in Indexes(yielded[w]) :
                \E r \in fileinfo :
                    /\ r.path = yielded[w][k]
                    /\ r.cols = BoundColumns(seen[w][k])

\* The inodes reachable from the root by listing directories.
RECURSIVE Reach(_, _)
Reach(f, S) ==
    LET listed == {f[d].ents[n] :
                      d \in {x \in S : f[x].kind = "dir" /\ f[x].perm},
                      n \in Names}
        more == S \cup (listed \ {0})
    IN IF more = S THEN S ELSE Reach(f, more)
ReachableNodes(f) == Reach(f, {RootIno})

\* C4: on a static filesystem a completed traversal has yielded, for every
\* node reachable from the root by directory listing, a path that names
\* that node itself (symlinks are nodes of their own).
C4_EveryNodeYielded ==
    \A w \in Scanners :
        (pc[w] = "done" /\ static[w]) =>
            \A i \in ReachableNodes(fs) :
                \E k \in Indexes(yielded[w]) :
                    LET st == OsLstat(fs, yielded[w][k]) IN
                    st.err = "ok" /\ st.ino = i

\* The key a path resolves to (0 when it does not resolve).
KeyOf(f, path) == OsStat(f, path).ino

\* The directory a frame's path was listed from has been yielded.
Parent(path) == SubSeq(path, 1, Len(path) - 1)

\* C5: on a static filesystem no two yielded paths resolve to the same
\* (device, inode) key; the key of every yielded node, and of every node
\* whose children are being examined, is in the visited set; and the
\* traversal descends only below yielded paths, so a candidate whose key is
\* already visited is neither yielded nor descended into.
C5_AtMostOnce ==
    \A w \in Scanners :
        static[w] =>
            /\ \A j, k \in Indexes(yielded[w]) :
                   j # k => KeyOf(fs, yielded[w][j]) # KeyOf(fs, yielded[w][k])
            /\ \A k \in Indexes(yielded[w]) :
                   /\ KeyOf(fs, yielded[w][k]) = ykeys[w][k]
                   /\ ykeys[w][k] \in visited[w]
            /\ \A k \in Indexes(stack[w]) :
                   LET frame == stack[w][k] IN
                   IF frame.pc = "stat"
                   THEN frame.top = Top \/ InSeq(yielded[w], Parent(frame.top))
                   ELSE /\ InSeq(yielded[w], frame.top)
                        /\ KeyOf(fs, frame.top) \in visited[w]

\* A completed traversal that turned a candidate away: a root entry that
\* resolves to a visited key and was not yielded.
C5_Witness ==
    /\ pc[1] = "done"
    /\ static[1]
    /\ Len(yielded[1]) >= 2
    /\ \E n \in Names :
           /\ OsStat(fs, <<n>>).err = "ok"
           /\ KeyOf(fs, <<n>>) \in visited[1]
           /\ ~InSeq(yielded[1], <<n>>)

\* C6: on every finite static filesystem, symlink cycles included, the
\* traversal runs to exhaustion (it does not end by an error) and yields
\* no directory twice.
C6_CycleTermination ==
    \A w \in Scanners :
        static[w] =>
            /\ pc[w] # "raised"
            /\ \A j, k \in Indexes(ykeys[w]) : j # k => ykeys[w][j] # ykeys[w][k]

\* A worker's INSERT: the step that leaves its commit() at _insert_fileinfo.
InsertStep(w) ==
    pc[w] = "commit" /\ fi[w].data.id = -1 /\ pc'[w] # "commit"

\* C7: whatever the workers commit, table fileinfo holds at most one row
\* per path, and an INSERT for a path that already has a row adds no row
\* and leaves the existing row as it was.
C7_PathUnique ==
    /\ [](\A r1, r2 \in fileinfo : r1.path = r2.path => r1 = r2)
    /\ [][\A w \in Workers :
              (InsertStep(w) /\ HasPath(fileinfo, fi[w].data.path))
                  => fileinfo' = fileinfo]_vars

\* Both workers have committed, and the scan's INSERT met the row of a path
\* the client had created.
C7_Witness ==
    /\ pc[1] = "update"
    /\ ~added[1]
    /\ outcome[2] = "created"
    /\ HasPath(fileinfo, fi[1].data.path)
    /\ fi[1].data.path = fi[2].data.path

\* C8: _update_fileinfo raises exactly when its UPDATE affected a number
\* of rows other than one and returns normally exactly when it affected
\* one row; the error ends the caller's run (it is neither retried nor
\* swallowed).
C8_UpdateContract ==
    \A w \in Workers :
        /\ outcome[w] = "raised" =>
               /\ fi[w].rowcount # 1
               /\ pc[w] = "raised"
               /\ failure[w] = Failure("update", "rowcount")
        /\ outcome[w] = "updated" =>
               /\ fi[w].rowcount = 1
               /\ failure[w].op # "update"

\* An UPDATE that affected no row: the client committed a record with an
\* id for a path the store does not know.
C8_Witness ==
    /\ outcome[2] = "raised"
    /\ fi[2].rowcount = 0
    /\ ~HasPath(fileinfo, fi[2].data.path)

\* The errors a call meets when the node it was handed has vanished, has
\* been replaced by a node of another kind, or may not be read.
TransientErrors == {"ENOENT", "ENOTDIR", "EACCES"}

\* C9: a node that vanishes, changes kind or is unreadable when the
\* traversal comes to stat it or to list it never ends the traversal: no
\* run ends by such an error of os.stat or os.listdir.
C9_TraversalNeverAborts ==
    \A w \in Scanners :
        ~(failure[w].op \in {"stat", "listdir"}
          /\ failure[w].err \in TransientErrors)

\* C10: a yielded path that vanishes or becomes unreadable before its
\* snapshot is taken does not end the run: no run ends by an error of
\* load_vfs_info's lstat.
C10_ScanLoopNeverAborts ==
    \A w \in Scanners :
        ~(failure[w].op = "lstat" /\ failure[w].err \in TransientErrors)

\* A worker's commit() of a new record (data.id == -1) has ended.
Settled(w) ==
    fi[w].data.id = -1 /\ outcome[w] \in {"created", "updated", "raised"}

\* C11: when two workers, each on its own connection, have both committed
\* a new record for the same path, exactly one INSERT created the row, the
\* other worker went on to the UPDATE, neither raised the row-count error,
\* and the row holds the snapshot one of the two wrote.
C11_RaceOneCreator ==
    \A w1, w2 \in Workers :
        (/\ w1 # w2
         /\ Settled(w1)
         /\ Settled(w2)
         /\ fi[w1].data.path = fi[w2].data.path) =>
            /\ added[w1] # added[w2]
            /\ ~added[w1] => outcome[w1] = "updated"
            /\ outcome[w1] # "raised"
            /\ \E r \in fileinfo :
                   /\ r.path = fi[w1].data.path
                   /\ r.cols \in {BoundColumns(fi[w1].data),
                                  BoundColumns(fi[w2].data)}

\* The bytes of a file: every write appends one byte of the same value, so
\* the bytes are told by their number.
Content(node) == [k \in 1..node.size |-> 0]

\* The identity of a byte sequence: its length and its digest (taken to be
\* free of collisions).
ContentKey(node) == <<node.size, Content(node)>>

\* The path names a conventional file itself (not a symlink to one).
IsConventionalFile(f, path) ==
    LET st == OsLstat(f, path) IN st.err = "ok" /\ f[st.ino].kind = "file"

\* C12: after a completed scan of a static tree in which two distinct
\* yielded paths are conventional files with the same bytes, table contents
\* holds exactly one row with that (size, digest) key and the fileinfo rows
\* of both paths carry that row's id as content_id.
C12_DedupOneContentRecord ==
    \A w \in Scanners :
        (pc[w] = "done" /\ static[w]) =>
            \A j, k \in Indexes(yielded[w]) :
                (/\ j # k
                 /\ IsConventionalFile(fs, yielded[w][j])
                 /\ IsConventionalFile(fs, yielded[w][k])
                 /\ ContentKey(fs[OsLstat(fs, yielded[w][j]).ino])
                        = ContentKey(fs[OsLstat(fs, yielded[w][k]).ino])) =>
                    LET key == ContentKey(fs[OsLstat(fs, yielded[w][j]).ino])
                        held == {c \in contents : c.key = key}
                    IN /\ Cardinality(held) = 1
                       /\ \A p \in {yielded[w][j], yielded[w][k]} :
                              \E r \in fileinfo :
                                  /\ r.path = p
                                  /\ \E c \in held : r.content_id = c.id

C14_RowsKept ==
    [][\A r \in fileinfo :
          \E kept \in fileinfo' :
              /\ kept.id = r.id
              /\ kept.path = r.path
              /\ OsLstat(fs, r.path).err # "ok" => kept = r]_vars

\* A second run has completed over a tree from which a path with a row has
\* vanished since the first run; the row is still there.
C14_Witness ==
    /\ pc[1] = "done"
    /\ scans[1] = 2
    /\ count[1] >= 1
    /\ \E r \in fileinfo : OsLstat(fs, r.path).err = "ENOENT"

\* The classification the claim states: not regular when the node is a
\* directory, not regular when it exists and is neither a directory nor a
\* conventional file, regular otherwise.
Regular(f, path) ==
    LET node == f[OsLstat(f, path).ino] IN
    IF node.kind = "dir" THEN FALSE
    ELSE IF OsPathExists(f, path) /\ ~OsPathIsfile(f, path) THEN FALSE
    ELSE TRUE

RegularByKind(f, path) ==
    LET node == f[OsLstat(f, path).ino]
        st == OsStat(f, path)
    IN CASE node.kind = "file" -> TRUE
         [] node.kind = "dir" -> TRUE
         [] node.kind = "special" -> FALSE
         [] node.kind = "link" -> st.err = "ok" => f[st.ino].kind = "file"

C16_ScanNeverRaisesRowcount ==
    \A w \in Scanners :
        /\ outcome[w] # "raised"
        /\ failure[w].op # "update"
        /\ pc[w] = "update" =>
               Cardinality(Matching(fileinfo, fi[w].data)) = 1
        /\ outcome[w] = "updated" => fi[w].rowcount = 1

\* The scan has updated the row an earlier run left for a path below the
\* root.
C16_Witness ==
    /\ outcome[1] = "updated"
    /\ fi[1].rowcount = 1
    /\ fi[1].data.path # Top
    /\ \E old \in before[1] : old.path = fi[1].data.path

\* A worker's _update_fileinfo call ends by its row-count error.
UpdateRaises(w) == pc[w] = "update" /\ outcome'[w] = "raised"

\* C17: whenever _update_fileinfo raises its row-count error the UPDATE
\* affected no row (path being unique, the count cannot exceed one), and
\* table fileinfo is after the call what it was before it.
C17_RaiseLeavesTable ==
    /\ [](\A w \in Workers : outcome[w] = "raised" => fi[w].rowcount = 0)
    /\ [][\A w \in Workers : UpdateRaises(w) => fileinfo' = fileinfo]_vars

\* The row-count error was raised over a table that holds rows the UPDATE
\* could have changed.
C17_Witness ==
    \E w \in Workers :
        /\ pc[w] = "raised"
        /\ outcome[w] = "raised"
        /\ fileinfo # {}
        /\ \A r \in fileinfo : r.path # fi[w].data.path

\* Path p is q or lies below q.
Below(p, q) == Len(q) <= Len(p) /\ SubSeq(p, 1, Len(q)) = q

\* C18: the root is the first path a run yields; every other yielded path
\* comes after the path of the directory it was listed from, the paths
\* below a directory following it without a gap (depth-first); and the record
\* the loop body is loading or committing is for the root or for a path
\* whose parent directory's path has been yielded in the same run.
C18_ParentFirst ==
    \A w \in Scanners :
        /\ yielded[w] # << >> => yielded[w][1] = Top
        /\ \A k \in Indexes(yielded[w]) :
               k > 1 => \E j \in 1..(k - 1) :
                            yielded[w][j] = Parent(yielded[w][k])
        /\ \A i, j, k \in Indexes(yielded[w]) :
               (i < j /\ j < k /\ Below(yielded[w][k], yielded[w][i])) =>
                   Below(yielded[w][j], yielded[w][i])
        /\ pc[w] \in {"load", "commit", "update"} =>
               /\ fi[w].data.path = yielded[w][Len(yielded[w])]
               /\ \/ fi[w].data.path = Top
                  \/ InSeq(yielded[w], Parent(fi[w].data.path))

\* The record of a path two levels below the root is being committed.
C18_Witness ==
    /\ pc[1] = "commit"
    /\ Len(fi[1].data.path) = 2
    /\ Len(yielded[1]) >= 3

====
